---------------------------- MODULE Spec2Model ----------------------------
(***************************************************************************)
(* A model of the two WebGPU scripts of the repository.                    *)
(*                                                                         *)
(*   src/unnamed/part_000  the animated Game of Life: start-up checks,     *)
(*       buffer creation and seeding, the simulation (compute) shader, the *)
(*       two ping-pong bind groups, and render(), the timer callback that  *)
(*       encodes one compute pass and one render pass per tick.            *)
(*   src/run.js            the static variant: the same start-up checks    *)
(*       and a single render pass, with no cell state and no timer.        *)
(*                                                                         *)
(* The CPU side (the module script and the timer callback) and the GPU     *)
(* side (the device queue, which executes what was submitted in order) are *)
(* separate processes of the model.  GRID_SIZE and WORKGROUP_SIZE are      *)
(* variables fixed by the initial state, so that the shipped configuration *)
(* (64 and 8) can be checked in scaled-down instances.                     *)
(***************************************************************************)
EXTENDS Integers, Sequences, FiniteSets, TLC

VARIABLES
    variant,          \* "animated" (part_000) or "static" (run.js)
    navigatorGpu,     \* whether navigator.gpu is present
    adapterFound,     \* whether requestAdapter() yields an adapter
    GRID_SIZE,        \* const GRID_SIZE
    WORKGROUP_SIZE,   \* const WORKGROUP_SIZE
    randomCells,      \* cellStateArray as the Math.random() draws fill it
    pc,               \* position of the module script
    error,            \* message of the Error thrown at start-up, or ""
    buffers,          \* labels of the GPU buffers created so far
    vertexBuffer,     \* GPU content of "Cell vertices"
    uniformBuffer,    \* GPU content of "Grid Uniforms"
    cellStateStorage, \* GPU content of "Cell State A" (0) and "Cell State B" (1)
    queue,            \* device.queue: writes and command buffers not yet executed
    submitted,        \* ticks of the command buffers submitted, in order
    step,             \* let step
    timerStarted,     \* whether setInterval(render, ...) has been called
    timerTasks,       \* timer callbacks that are due and have not run yet
    tickPc,           \* position inside render()
    encoder,          \* what the current command encoder has recorded
    tickStart,        \* value of step when the current tick began
    ticks,            \* number of calls of render() begun
    running,          \* number of calls of render() in progress
    gpuPc,            \* position of the GPU inside the head command buffer
    gpuWrote,         \* buffer written by the compute pass of the head command buffer
    generation,       \* number of compute passes the GPU has executed
    seedWritten,      \* whether the GPU has executed the seeding write
    canvas,           \* what the last executed render pass read and drew
    pending,          \* invocations of the dispatch in progress that have not run
    arg,              \* input of the pure function under check
    ret               \* its result

vars == <<variant, navigatorGpu, adapterFound, GRID_SIZE, WORKGROUP_SIZE,
          randomCells, pc, error, buffers, vertexBuffer, uniformBuffer,
          cellStateStorage, queue, submitted, step, timerStarted, timerTasks,
          tickPc, encoder, tickStart, ticks, running, gpuPc, gpuWrote,
          generation, seedWritten, canvas, pending, arg, ret>>

cpuVars == <<pc, error, buffers, step, timerStarted, tickPc, encoder,
             tickStart, ticks, running, submitted>>
gpuVars == <<vertexBuffer, uniformBuffer, cellStateStorage, gpuPc, gpuWrote,
             generation, seedWritten, canvas>>
envVars == <<variant, navigatorGpu, adapterFound, GRID_SIZE, WORKGROUP_SIZE,
             randomCells>>
probeVars == <<pending, arg, ret>>

---------------------------------------------------------------------------
(* Bounds of the model. *)

\* render() is not begun once step has reached MaxStep.
MaxStep == 4
\* render() is not begun while MaxQueue command buffers await the GPU.
MaxQueue == 2
\* At most MaxTimerTasks timer callbacks are due at once.
MaxTimerTasks == 1
\* Largest grid width and height.
MaxDim == 5
\* Math.random() exceeds 0.6 only among its first MaxSeeded draws: the cells
\* from index MaxSeeded on are seeded dead.
MaxSeeded == 5
\* When WORKGROUP_SIZE is not below GRID_SIZE, the glider is placed at the
\* offsets 1 to MaxRacyOffset only.
MaxRacyOffset == 2

---------------------------------------------------------------------------
(* Constants of the two scripts. *)

\* const GRID_SIZE = 64 of part_000.
ShippedGridSize == 64
\* const WORKGROUP_SIZE = 8 of part_000.
ShippedWorkgroupSize == 8
\* const GRID_SIZE = 32 of run.js.
StaticGridSize == 32

---------------------------------------------------------------------------
(* 32-bit unsigned integers, as two 16-bit halves <<high, low>>.           *)

Half == 256 * 256

\* u32(v) for a number below 2^16.
U32(v) == <<0, v>>

\* u + 1 and u - 1 in u32: both wrap modulo 2^32.
U32Inc(u) ==
    IF u[2] + 1 < Half THEN <<u[1], u[2] + 1>>
    ELSE IF u[1] + 1 < Half THEN <<u[1] + 1, 0>> ELSE <<0, 0>>

U32Dec(u) ==
    IF u[2] > 0 THEN <<u[1], u[2] - 1>>
    ELSE IF u[1] > 0 THEN <<u[1] - 1, Half - 1>> ELSE <<Half - 1, Half - 1>>

\* u % m in u32, for 1 <= m < 2^15.
U32Rem(u, m) == (((u[1] % m) * (Half % m)) + (u[2] % m)) % m

---------------------------------------------------------------------------
(* The simulation shader. *)

Cells(g) == 0 .. (g * g - 1)

AllDead(g) == [i \in Cells(g) |-> 0]
AllAlive(g) == [i \in Cells(g) |-> 1]

\* cellIndex with the roles of the column and the row exchanged.
cellIndexColumnMajor(cell, grid) ==
    (U32Rem(cell[1], grid[1]) * grid[2]) + U32Rem(cell[2], grid[2])

\* fn cellIndex(cell: vec2u) -> u32, with grid the uniform <<grid.x, grid.y>>.
cellIndex(cell, grid) ==
    (U32Rem(cell[2], grid[2]) * grid[1]) + U32Rem(cell[1], grid[1])

\* fn cellActive(x: u32, y: u32) -> u32, reading cellStateIn.
cellActive(cellStateIn, x, y, grid) == cellStateIn[cellIndex(<<x, y>>, grid)]

\* The switch with the stores of case 3 and default exchanged.
switchSwapped(activeNeighbors, current) ==
    CASE activeNeighbors = 2 -> current
      [] activeNeighbors = 3 -> 0
      [] OTHER -> 1

\* The switch with case 2 storing 1 instead of copying the cell.
switchForcedAlive(activeNeighbors, current) ==
    CASE activeNeighbors = 2 -> 1
      [] activeNeighbors = 3 -> 1
      [] OTHER -> 0

\* The switch with case 3 taken for every count above 2.
switchNoOvercrowding(activeNeighbors, current) ==
    CASE activeNeighbors = 2 -> current
      [] activeNeighbors >= 3 -> 1
      [] OTHER -> 0

\* The switch with the default case storing the neighbour count.
switchStoresCount(activeNeighbors, current) ==
    CASE activeNeighbors = 2 -> current
      [] activeNeighbors = 3 -> 1
      [] OTHER -> activeNeighbors

\* The switch on activeNeighbors: the value stored to cellStateOut[i].
switchNeighbors(activeNeighbors, current) ==
    CASE activeNeighbors = 2 -> current
      [] activeNeighbors = 3 -> 1
      [] OTHER -> 0

\* let activeNeighbors = ... : the eight reads of one invocation.
activeNeighbors(cellStateIn, cell, grid) ==
    LET x == cell[1]
        y == cell[2]
    IN  cellActive(cellStateIn, U32Inc(x), U32Inc(y), grid) +
        cellActive(cellStateIn, U32Inc(x), y, grid) +
        cellActive(cellStateIn, U32Inc(x), U32Dec(y), grid) +
        cellActive(cellStateIn, x, U32Dec(y), grid) +
        cellActive(cellStateIn, U32Dec(x), U32Dec(y), grid) +
        cellActive(cellStateIn, U32Dec(x), y, grid) +
        cellActive(cellStateIn, U32Dec(x), U32Inc(y), grid) +
        cellActive(cellStateIn, x, U32Inc(y), grid)

\* fn computeMain(cell): one invocation, as the index it writes and the value.
computeMain(cellStateIn, cell, grid) ==
    LET i == cellIndex(cell, grid)
    IN  [i |-> i,
         v |-> switchNeighbors(activeNeighbors(cellStateIn, cell, grid),
                               cellStateIn[i])]

\* The workgroup count rounded up even when the division is exact.
workgroupCountPlusOne(g, wg) == (g \div wg) + 1

\* Math.ceil(GRID_SIZE / WORKGROUP_SIZE)
workgroupCount(g, wg) == (g + wg - 1) \div wg

\* The global_invocation_id values of dispatchWorkgroups(workgroupCount,
\* workgroupCount) with @workgroup_size(WORKGROUP_SIZE, WORKGROUP_SIZE).
Invocations(g, wg) ==
    LET n == workgroupCount(g, wg) * wg
    IN  (0 .. (n - 1)) \X (0 .. (n - 1))

\* Bind groups with the two cell buffers exchanged: group 0 reads B, writes A.
bindGroupsSwapped(k) ==
    IF k = 0 THEN [in |-> 1, out |-> 0] ELSE [in |-> 0, out |-> 1]

\* Bind groups that bind the same buffer as input and as output.
bindGroupsInPlace(k) ==
    IF k = 0 THEN [in |-> 0, out |-> 0] ELSE [in |-> 1, out |-> 1]

\* bindGroups[k]: binding 1 (read) and binding 2 (read_write) of group k.
bindGroups(k) ==
    IF k = 0 THEN [in |-> 0, out |-> 1] ELSE [in |-> 1, out |-> 0]

\* The stores of the invocations of one dispatch, each as the index written
\* and the value: every invocation reads cellStateIn as it is before the pass.
Stores(cellStateIn, g, wg) ==
    { computeMain(cellStateIn, <<U32(c[1]), U32(c[2])>>, <<g, g>>) :
        c \in Invocations(g, wg) }

\* The contents a whole dispatch can leave in the output buffer.  An index
\* holds the value of the last invocation that stored to it, and invocations
\* run in no defined order: where the stores to an index differ, either value
\* may stay.  An index no invocation stores to keeps its value.
Dispatched(cellStateIn, cellStateOut, g, wg) ==
    LET st == Stores(cellStateIn, g, wg)
        values == { r.v : r \in st }
        racy == { r.i : r \in { q \in st : \E p \in st : p.i = q.i /\ p.v /= q.v } }
        written == { r.i : r \in st }
        last == { f \in [racy -> values] :
                    \A i \in racy : [i |-> i, v |-> f[i]] \in st }
    IN  { [i \in Cells(g) |->
             IF i \in racy THEN f[i]
             ELSE IF i \in written
                    THEN (CHOOSE v \in values : [i |-> i, v |-> v] \in st)
             ELSE cellStateOut[i]] : f \in last }

---------------------------------------------------------------------------
(* Seeds and configurations the initial states are drawn from. *)

\* The buffer content with exactly the cells of live (pairs <<x, y>>) alive.
FromLive(live, g) ==
    [i \in Cells(g) |-> IF <<i % g, i \div g>> \in live THEN 1 ELSE 0]

\* The classic 5-cell glider, and the same pattern moved by <<dx, dy>> on the torus.
Glider == {<<1, 0>>, <<2, 1>>, <<0, 2>>, <<1, 2>>, <<2, 2>>}
Moved(live, dx, dy, g) == { <<(c[1] + dx) % g, (c[2] + dy) % g>> : c \in live }

\* What the loop of Math.random() draws may leave in cellStateArray: any
\* content of 0 and 1, within the bound MaxSeeded on the draws above 0.6.
Seeds(g) ==
    { [i \in Cells(g) |-> IF i \in live THEN 1 ELSE 0] :
        live \in SUBSET { i \in Cells(g) : i < MaxSeeded } }

\* n halved any number of times (n a power of two).
Halvings(n) == { d \in 1 .. n : n % d = 0 }

\* <<GRID_SIZE, WORKGROUP_SIZE>> of part_000: the shipped 64 and 8, or both
\* scaled down by halving, the grid no larger than MaxDim and the workgroup
\* no larger than the grid.
Configs ==
    { c \in Halvings(ShippedGridSize) \X Halvings(ShippedWorkgroupSize) :
        c[1] <= MaxDim /\ c[2] <= c[1] }

\* GRID_SIZE of run.js: the shipped 32, or scaled down likewise.
StaticGridSizes == { g \in Halvings(StaticGridSize) : g <= MaxDim }

---------------------------------------------------------------------------
(* The device queue. *)

WriteItem(buf, data) ==
    [type |-> "write", buf |-> buf, data |-> data, compute |-> -1,
     render |-> -1, tick |-> 0]

CommandBuffer(enc, tick) ==
    [type |-> "cmd", buf |-> "", data |-> <<>>, compute |-> enc.compute,
     render |-> enc.render, tick |-> tick]

NumCommandBuffers(q) ==
    Cardinality({ k \in 1 .. Len(q) : q[k].type = "cmd" })

\* const vertices, in tenths.
vertices == <<-8, -8, 8, -8, 8, 8, -8, -8, 8, 8, -8, 8>>

NoEncoder == [compute |-> -1, render |-> -1, draws |-> 0]
NoCanvas == [frames |-> 0, tick |-> 0, buf |-> -1, wrote |-> -1, cells |-> <<>>]

---------------------------------------------------------------------------
(* Initial states. *)

InitRest ==
    /\ pc = "checkGpu"
    /\ error = ""
    /\ buffers = {}
    /\ vertexBuffer = <<>>
    /\ uniformBuffer = <<>>
    /\ cellStateStorage = [b \in {0, 1} |-> AllDead(GRID_SIZE)]
    /\ queue = <<>>
    /\ submitted = <<>>
    /\ step = 0
    /\ timerStarted = FALSE
    /\ timerTasks = 0
    /\ tickPc = 0
    /\ encoder = NoEncoder
    /\ tickStart = 0
    /\ ticks = 0
    /\ running = 0
    /\ gpuPc = "compute"
    /\ gpuWrote = -1
    /\ generation = 0
    /\ seedWritten = FALSE
    /\ canvas = NoCanvas
    /\ pending = {}
    /\ arg = <<>>
    /\ ret = <<>>

InitEnv ==
    /\ navigatorGpu \in BOOLEAN
    /\ adapterFound \in BOOLEAN
    /\ variant \in {"animated", "static"}

Init ==
    /\ InitEnv
    /\ IF variant = "animated"
         THEN \E c \in Configs : GRID_SIZE = c[1] /\ WORKGROUP_SIZE = c[2]
         ELSE GRID_SIZE \in StaticGridSizes /\ WORKGROUP_SIZE = 1
    /\ randomCells \in Seeds(GRID_SIZE)
    /\ (variant = "static" \/ ~navigatorGpu \/ ~adapterFound)
          => randomCells = AllDead(GRID_SIZE)
    /\ InitRest

---------------------------------------------------------------------------
(* The module script, up to the first GPU work. *)

\* The check of navigator.gpu without its throw.
CheckGpuNoThrow ==
    /\ pc = "checkGpu"
    /\ pc' = "requestAdapter"
    /\ UNCHANGED <<error, buffers, step, timerStarted, tickPc, encoder,
                   tickStart, ticks, running, submitted, queue, timerTasks>>
    /\ UNCHANGED <<gpuVars, envVars, probeVars>>

\* if (!navigator.gpu) throw new Error(...)
CheckGpu ==
    /\ pc = "checkGpu"
    /\ IF navigatorGpu
         THEN pc' = "requestAdapter" /\ error' = error
         ELSE pc' = "error" /\ error' = "WebGPU not supported by this browser."
    /\ UNCHANGED <<buffers, step, timerStarted, tickPc, encoder, tickStart,
                   ticks, running, submitted, queue, timerTasks>>
    /\ UNCHANGED <<gpuVars, envVars, probeVars>>

\* const adapter = await navigator.gpu.requestAdapter(); if (!adapter) throw ...
RequestAdapter ==
    /\ pc = "requestAdapter"
    /\ IF adapterFound
         THEN pc' = "requestDevice" /\ error' = error
         ELSE pc' = "error" /\ error' = "No appropriate GPUAdapter found."
    /\ UNCHANGED <<buffers, step, timerStarted, tickPc, encoder, tickStart,
                   ticks, running, submitted, queue, timerTasks>>
    /\ UNCHANGED <<gpuVars, envVars, probeVars>>

\* const device = await adapter.requestDevice(); context.configure(...)
RequestDevice ==
    /\ pc = "requestDevice"
    /\ pc' = "geometry"
    /\ UNCHANGED <<error, buffers, step, timerStarted, tickPc, encoder,
                   tickStart, ticks, running, submitted, queue, timerTasks>>
    /\ UNCHANGED <<gpuVars, envVars, probeVars>>

\* The vertex buffer and the uniform buffer: created, and their writes queued.
CreateGeometry ==
    /\ pc = "geometry"
    /\ buffers' = buffers \cup {"Cell vertices", "Grid Uniforms"}
    /\ queue' = queue \o <<WriteItem("Cell vertices", vertices),
                           WriteItem("Grid Uniforms", <<GRID_SIZE, GRID_SIZE>>)>>
    /\ pc' = IF variant = "animated" THEN "cells" ELSE "draw"
    /\ UNCHANGED <<error, step, timerStarted, tickPc, encoder, tickStart,
                   ticks, running, submitted, timerTasks>>
    /\ UNCHANGED <<gpuVars, envVars, probeVars>>

\* The seeding with cellStateArray written to both cell state buffers.
SeedCellsAlsoB ==
    /\ pc = "cells"
    /\ buffers' = buffers \cup {"Cell State A", "Cell State B"}
    /\ queue' = queue \o <<WriteItem("Cell State A", randomCells),
                           WriteItem("Cell State B", randomCells)>>
    /\ pc' = "startLoop"
    /\ UNCHANGED <<error, step, timerStarted, tickPc, encoder, tickStart,
                   ticks, running, submitted, timerTasks>>
    /\ UNCHANGED <<gpuVars, envVars, probeVars>>

\* The two cell state buffers: created, cellStateArray filled from
\* Math.random(), and its write to cellStateStorage[0] queued.
SeedCells ==
    /\ pc = "cells"
    /\ buffers' = buffers \cup {"Cell State A", "Cell State B"}
    /\ queue' = Append(queue, WriteItem("Cell State A", randomCells))
    /\ pc' = "startLoop"
    /\ UNCHANGED <<error, step, timerStarted, tickPc, encoder, tickStart,
                   ticks, running, submitted, timerTasks>>
    /\ UNCHANGED <<gpuVars, envVars, probeVars>>

\* let step = 0; ... setInterval(render, UPDATE_INTERVAL);
StartLoop ==
    /\ pc = "startLoop"
    /\ step' = 0
    /\ timerStarted' = TRUE
    /\ pc' = "loop"
    /\ UNCHANGED <<error, buffers, tickPc, encoder, tickStart, ticks, running,
                   submitted, queue, timerTasks>>
    /\ UNCHANGED <<gpuVars, envVars, probeVars>>

\* run.js: one render pass drawing every instance, submitted once.
StaticDraw ==
    /\ pc = "draw"
    /\ queue' = Append(queue, CommandBuffer(
                    [compute |-> -1, render |-> -1, draws |-> 1], 0))
    /\ submitted' = Append(submitted, 0)
    /\ pc' = "done"
    /\ UNCHANGED <<error, buffers, step, timerStarted, tickPc, encoder,
                   tickStart, ticks, running, timerTasks>>
    /\ UNCHANGED <<gpuVars, envVars, probeVars>>

---------------------------------------------------------------------------
(* The timer and render(), its callback. *)

\* The interval elapses: one more call of render() is due.
TimerFire ==
    /\ timerStarted
    /\ timerTasks < MaxTimerTasks
    /\ timerTasks' = timerTasks + 1
    /\ UNCHANGED <<cpuVars, queue, gpuVars, envVars, probeVars>>

\* A callback that could start while another call of render() is suspended.
CallbackMayStartAnytime == TRUE

\* render() has no await: a callback starts only when none is running.
CallbackMayStart == running = 0

\* render() with step++ moved after the render pass.
renderBodyLateStep == <<"computePass", "renderPass", "step", "submit">>

\* The statements of render() after the encoder is created, in source order.
renderBody == <<"computePass", "step", "renderPass", "submit">>

\* The compute pass bound to bind group A in every tick.
computeBindGroupFixed(s) == 0

\* The bind group of the compute pass: bindGroups[step % 2].
computeBindGroup(s) == s % 2

\* The render pass bound to the other bind group.
renderBindGroupOther(s) == (s + 1) % 2

\* The bind group of the render pass: bindGroups[step % 2].
renderBindGroup(s) == s % 2

\* The timer task calls render(): const encoder = device.createCommandEncoder()
TickBegin ==
    /\ pc = "loop"
    /\ timerTasks > 0
    /\ CallbackMayStart
    /\ step < MaxStep
    /\ NumCommandBuffers(queue) < MaxQueue
    /\ timerTasks' = timerTasks - 1
    /\ running' = running + 1
    /\ ticks' = ticks + 1
    /\ tickStart' = step
    /\ encoder' = NoEncoder
    /\ tickPc' = 1
    /\ UNCHANGED <<pc, error, buffers, step, timerStarted, submitted, queue>>
    /\ UNCHANGED <<gpuVars, envVars, probeVars>>

\* encoder.beginComputePass() ... computePass.end()
TickComputePass ==
    /\ tickPc > 0
    /\ renderBody[tickPc] = "computePass"
    /\ encoder' = [encoder EXCEPT !.compute = computeBindGroup(step)]
    /\ tickPc' = tickPc + 1
    /\ UNCHANGED <<pc, error, buffers, step, timerStarted, tickStart, ticks,
                   running, submitted, queue, timerTasks>>
    /\ UNCHANGED <<gpuVars, envVars, probeVars>>

\* step++
TickStep ==
    /\ tickPc > 0
    /\ renderBody[tickPc] = "step"
    /\ step' = step + 1
    /\ tickPc' = tickPc + 1
    /\ UNCHANGED <<pc, error, buffers, timerStarted, encoder, tickStart,
                   ticks, running, submitted, queue, timerTasks>>
    /\ UNCHANGED <<gpuVars, envVars, probeVars>>

\* encoder.beginRenderPass(...) ... pass.end()
TickRenderPass ==
    /\ tickPc > 0
    /\ renderBody[tickPc] = "renderPass"
    /\ encoder' = [encoder EXCEPT !.render = renderBindGroup(step),
                                  !.draws = 1]
    /\ tickPc' = tickPc + 1
    /\ UNCHANGED <<pc, error, buffers, step, timerStarted, tickStart, ticks,
                   running, submitted, queue, timerTasks>>
    /\ UNCHANGED <<gpuVars, envVars, probeVars>>

\* device.queue.submit([encoder.finish()]), and render() returns.
TickSubmit ==
    /\ tickPc > 0
    /\ renderBody[tickPc] = "submit"
    /\ queue' = Append(queue, CommandBuffer(encoder, ticks))
    /\ submitted' = Append(submitted, ticks)
    /\ encoder' = NoEncoder
    /\ running' = running - 1
    /\ tickPc' = 0
    /\ UNCHANGED <<pc, error, buffers, step, timerStarted, tickStart, ticks,
                   timerTasks>>
    /\ UNCHANGED <<gpuVars, envVars, probeVars>>

---------------------------------------------------------------------------
(* The GPU: it executes the head of the device queue, in order. *)

\* queue.writeBuffer(buffer, 0, data) takes effect.
GpuWrite ==
    /\ queue /= <<>>
    /\ Head(queue).type = "write"
    /\ LET w == Head(queue)
       IN  /\ vertexBuffer' =
                IF w.buf = "Cell vertices" THEN w.data ELSE vertexBuffer
           /\ uniformBuffer' =
                IF w.buf = "Grid Uniforms" THEN w.data ELSE uniformBuffer
           /\ cellStateStorage' =
                IF w.buf = "Cell State A"
                  THEN [cellStateStorage EXCEPT ![0] = w.data]
                ELSE IF w.buf = "Cell State B"
                  THEN [cellStateStorage EXCEPT ![1] = w.data]
                  ELSE cellStateStorage
           /\ seedWritten' = (seedWritten \/ w.buf = "Cell State A")
    /\ queue' = Tail(queue)
    /\ UNCHANGED <<gpuPc, gpuWrote, generation, canvas, timerTasks>>
    /\ UNCHANGED <<cpuVars, envVars, probeVars>>

\* The compute pass of the head command buffer: one whole dispatch.
GpuCompute ==
    /\ queue /= <<>>
    /\ Head(queue).type = "cmd"
    /\ Head(queue).compute /= -1
    /\ gpuPc = "compute"
    /\ LET bg == bindGroups(Head(queue).compute)
       IN  /\ \E out \in Dispatched(cellStateStorage[bg.in],
                                    cellStateStorage[bg.out],
                                    GRID_SIZE, WORKGROUP_SIZE) :
                 cellStateStorage' = [cellStateStorage EXCEPT ![bg.out] = out]
           /\ gpuWrote' = bg.out
    /\ generation' = generation + 1
    /\ gpuPc' = "render"
    /\ UNCHANGED <<vertexBuffer, uniformBuffer, seedWritten, canvas, queue,
                   timerTasks>>
    /\ UNCHANGED <<cpuVars, envVars, probeVars>>

\* The render pass of the head command buffer: it reads binding 1 of its bind
\* group (every instance is drawn when the pipeline binds no cell state), and
\* the command buffer is done.
GpuRender ==
    /\ queue /= <<>>
    /\ Head(queue).type = "cmd"
    /\ Head(queue).compute = -1 \/ gpuPc = "render"
    /\ LET c == Head(queue)
           b == IF c.render = -1 THEN -1 ELSE bindGroups(c.render).in
       IN  canvas' = [frames |-> canvas.frames + 1,
                      tick |-> c.tick,
                      buf |-> b,
                      wrote |-> IF c.compute = -1 THEN -1 ELSE gpuWrote,
                      cells |-> IF b = -1 THEN AllAlive(GRID_SIZE)
                                ELSE cellStateStorage[b]]
    /\ gpuPc' = "compute"
    /\ queue' = Tail(queue)
    /\ UNCHANGED <<vertexBuffer, uniformBuffer, cellStateStorage, gpuWrote,
                   generation, seedWritten, timerTasks>>
    /\ UNCHANGED <<cpuVars, envVars, probeVars>>

---------------------------------------------------------------------------

Next ==
    \/ CheckGpu
    \/ RequestAdapter
    \/ RequestDevice
    \/ CreateGeometry
    \/ SeedCells
    \/ StartLoop
    \/ StaticDraw
    \/ TimerFire
    \/ TickBegin
    \/ TickComputePass
    \/ TickStep
    \/ TickRenderPass
    \/ TickSubmit
    \/ GpuWrite
    \/ GpuCompute
    \/ GpuRender

Spec == Init /\ [][Next]_vars

---------------------------------------------------------------------------
(* Properties of the animated program, checked under Spec. *)

Animated == variant = "animated"

\* The command buffers of render() in the device queue.
QueuedTicks == { k \in 1 .. Len(queue) : queue[k].type = "cmd" /\ Animated }

\* The cell buffer that holds the latest generation on the GPU: the output of
\* the last compute pass, or buffer A while no compute pass has run.
Current == IF gpuWrote = -1 THEN 0 ELSE gpuWrote

\* C1: with s the value of step when a tick starts (0 at the first tick, one
\* more at each tick), the compute pass of the tick reads cell buffer s % 2
\* and writes cell buffer (s+1) % 2, step then becomes s+1, and the render
\* pass of the tick reads cell buffer (s+1) % 2, the buffer its compute pass
\* wrote; the GPU executes the two passes on these buffers.
C1_TickBuffers ==
    /\ tickPc > 0 => tickStart = ticks - 1
    /\ (tickPc = 0 /\ pc = "loop") => step = ticks
    /\ (tickPc > 0 /\ encoder.compute /= -1) =>
          /\ bindGroups(encoder.compute).in = tickStart % 2
          /\ bindGroups(encoder.compute).out = (tickStart + 1) % 2
    /\ (tickPc > 0 /\ encoder.draws = 1) =>
          /\ encoder.compute /= -1
          /\ step = tickStart + 1
          /\ bindGroups(encoder.render).in = (tickStart + 1) % 2
          /\ bindGroups(encoder.render).in = bindGroups(encoder.compute).out
    /\ \A k \in QueuedTicks :
          /\ bindGroups(queue[k].compute).in = (queue[k].tick - 1) % 2
          /\ bindGroups(queue[k].compute).out = queue[k].tick % 2
          /\ bindGroups(queue[k].render).in = queue[k].tick % 2
    /\ (Animated /\ gpuPc = "render") => gpuWrote = Head(queue).tick % 2
    /\ (Animated /\ canvas.frames > 0) =>
          /\ canvas.buf = canvas.tick % 2
          /\ canvas.buf = canvas.wrote
          /\ canvas.frames = canvas.tick

\* The render pass of the second tick has read buffer A, which the compute
\* pass of that tick wrote.
C1_Witness ==
    /\ Animated
    /\ canvas.tick = 2
    /\ canvas.buf = 0
    /\ gpuWrote = 0
    /\ generation = 2

\* C5, as claimed: within a tick, step is incremented only after the render
\* pass of the tick has been encoded.
C5_IncrementAfterRenderPass ==
    (tickPc > 0 /\ step /= tickStart) => encoder.draws = 1

\* C5, amended: within a tick, step is incremented once, after the compute
\* pass of the tick has been encoded and before its render pass is encoded;
\* both passes are encoded before the command buffer is submitted.
C5_IncrementBetweenPasses ==
    /\ tickPc > 0 => step \in {tickStart, tickStart + 1}
    /\ (tickPc > 0 /\ step /= tickStart) => encoder.compute /= -1
    /\ (tickPc > 0 /\ encoder.draws = 1) => step = tickStart + 1
    /\ (tickPc > 0 /\ encoder.draws = 0 /\ encoder.compute /= -1
          /\ renderBody[tickPc] = "renderPass") => step = tickStart + 1
    /\ \A k \in QueuedTicks : queue[k].compute /= -1 /\ queue[k].render /= -1

\* step has been incremented and the render pass is not encoded yet.
C5_Witness ==
    /\ tickPc > 0
    /\ step = tickStart + 1
    /\ encoder.compute /= -1
    /\ encoder.draws = 0

\* C6: ticks never overlap.  At most one call of render() is in progress; a
\* tick begins only when every earlier tick has submitted its command buffer,
\* which holds its compute pass and its render pass; and command buffers are
\* submitted in tick order.
C6_TicksDoNotOverlap ==
    Animated =>
      /\ running \in {0, 1}
      /\ running = 1 <=> tickPc > 0
      /\ Len(submitted) = ticks - running
      /\ \A k \in 1 .. Len(submitted) : submitted[k] = k
      /\ \A k \in QueuedTicks : queue[k].compute /= -1 /\ queue[k].render /= -1
      /\ step \in {Len(submitted), Len(submitted) + 1}
      /\ tickPc = 0 => step = Len(submitted)

\* A timer callback is due while the second tick is still encoding.
C6_Witness ==
    /\ Animated
    /\ ticks = 2
    /\ tickPc > 0
    /\ timerTasks > 0
    /\ submitted = <<1>>

\* The current buffer holds only dead cells, the seed having been written.
CurrentAllDead ==
    /\ Animated
    /\ seedWritten
    /\ cellStateStorage[Current] = AllDead(GRID_SIZE)

\* C7: an all-dead grid stays all-dead: once every cell of the current buffer
\* is 0, every cell of the current buffer is 0 after each later tick.
C7_AllDeadStaysDead == [][CurrentAllDead => CurrentAllDead']_vars

\* A grid seeded with live cells has died out and is still all-dead one
\* compute pass later.
C7_Witness ==
    /\ CurrentAllDead
    /\ randomCells /= AllDead(GRID_SIZE)
    /\ cellStateStorage[1 - Current] = AllDead(GRID_SIZE)
    /\ generation >= 2

\* C10: a start-up without navigator.gpu or without an adapter ends in the
\* error state with the message of its Error; nothing follows the error state
\* (no retry); and in such a run no buffer is created, nothing is written or
\* submitted to the queue, and the timer is never started, in both variants.
C10_StartupFailureIsFatal ==
    /\ (~navigatorGpu \/ ~adapterFound) =>
          /\ pc \in {"checkGpu", "requestAdapter", "error"}
          /\ buffers = {}
          /\ queue = <<>>
          /\ submitted = <<>>
          /\ ~timerStarted
          /\ ticks = 0
          /\ canvas = NoCanvas
          /\ ~seedWritten
    /\ pc = "error" =>
          /\ ~navigatorGpu \/ ~adapterFound
          /\ error = IF ~navigatorGpu
                       THEN "WebGPU not supported by this browser."
                       ELSE "No appropriate GPUAdapter found."
          /\ ~ENABLED Next
    /\ pc /= "error" => error = ""

\* The static variant has stopped because no adapter was found.
C10_Witness ==
    /\ pc = "error"
    /\ variant = "static"
    /\ navigatorGpu
    /\ ~adapterFound
    /\ error = "No appropriate GPUAdapter found."

---------------------------------------------------------------------------
(* The program with other grid sizes: GRID_SIZE from 3 to MaxDim, seeded   *)
(* all-dead, all-alive or, on the 5x5 grid, with a glider.  With            *)
(* WORKGROUP_SIZE 8 the dispatch covers an 8x8 range, several invocations   *)
(* store to one cell, and where their values differ the outcome is any of   *)
(* them; the placements of the glider are then bounded by MaxRacyOffset.    *)

GliderOffsets(g, wg) == IF wg < g THEN 0 .. (g - 1) ELSE 1 .. MaxRacyOffset

GliderSeeds(g, wg) ==
    IF g = 5
      THEN { FromLive(Moved(Glider, dx, dy, g), g) :
               dx \in GliderOffsets(g, wg), dy \in GliderOffsets(g, wg) }
      ELSE {}

InitGrid ==
    /\ InitEnv
    /\ GRID_SIZE \in 3 .. MaxDim
    /\ WORKGROUP_SIZE \in {1, ShippedWorkgroupSize}
    /\ randomCells \in {AllDead(GRID_SIZE), AllAlive(GRID_SIZE)}
                         \cup GliderSeeds(GRID_SIZE, WORKGROUP_SIZE)
    /\ (variant = "static" \/ ~navigatorGpu \/ ~adapterFound)
          => (randomCells = AllDead(GRID_SIZE) /\ GRID_SIZE = 3
                /\ WORKGROUP_SIZE = ShippedWorkgroupSize)
    /\ InitRest

SpecGrid == InitGrid /\ [][Next]_vars

---------------------------------------------------------------------------
(* The reference the claims compare the shader with: Conway's rule on a    *)
(* torus, with the mathematical modulo of the grid model.                  *)

\* v modulo n, in 0 .. n-1 for every integer v.
Wrap(v, n) == ((v % n) + n) % n

\* The linear index of the cell at the wrapped coordinates (x, y).
wrapIndex(x, y, w, h) == (Wrap(y, h) * w) + Wrap(x, w)

Offsets ==
    {<<1, 1>>, <<1, 0>>, <<1, -1>>, <<0, -1>>,
     <<-1, -1>>, <<-1, 0>>, <<-1, 1>>, <<0, 1>>}

RECURSIVE SumOver(_, _)
SumOver(f, S) ==
    IF S = {} THEN 0
    ELSE LET e == CHOOSE e \in S : TRUE IN f[e] + SumOver(f, S \ {e})

\* The number of live cells among the 8 neighbours of cell i on the torus.
LiveNeighbours(c, i, g) ==
    SumOver([d \in Offsets |-> c[wrapIndex((i % g) + d[1], (i \div g) + d[2], g, g)]],
            Offsets)

\* One generation of the reference automaton.
Conway(c, g) ==
    [i \in Cells(g) |->
       LET n == LiveNeighbours(c, i, g)
       IN  IF n = 2 THEN c[i] ELSE IF n = 3 THEN 1 ELSE 0]

---------------------------------------------------------------------------
(* Properties checked under SpecGrid. *)

\* C8: on a grid wider and higher than 2 whose current buffer holds only live
\* cells, every invocation counts exactly 8 live neighbours, and the compute
\* pass leaves only dead cells in the new current buffer.
C8_AllAliveDies ==
    /\ [](( /\ Animated
            /\ seedWritten
            /\ GRID_SIZE > 2
            /\ cellStateStorage[Current] = AllAlive(GRID_SIZE))
          => \A c \in Invocations(GRID_SIZE, WORKGROUP_SIZE) :
               activeNeighbors(cellStateStorage[Current],
                               <<U32(c[1]), U32(c[2])>>,
                               <<GRID_SIZE, GRID_SIZE>>) = 8)
    /\ [][( /\ Animated
            /\ seedWritten
            /\ GRID_SIZE > 2
            /\ cellStateStorage[Current] = AllAlive(GRID_SIZE)
            /\ generation' = generation + 1)
          => cellStateStorage'[Current'] = AllDead(GRID_SIZE)]_vars

\* A 4x4 grid seeded all-alive after its first compute pass: all dead.
C8_Witness ==
    /\ Animated
    /\ GRID_SIZE = 4
    /\ randomCells = AllAlive(GRID_SIZE)
    /\ generation = 1
    /\ Current = 1
    /\ cellStateStorage[0] = AllAlive(GRID_SIZE)
    /\ cellStateStorage[1] = AllDead(GRID_SIZE)

\* The seed is the glider moved by <<dx, dy>>.
GliderAt(dx, dy) ==
    randomCells = FromLive(Moved(Glider, dx, dy, GRID_SIZE), GRID_SIZE)

\* C9: on the 5x5 grid seeded with the glider at any offset, the live cells
\* after 4 compute passes are the seeded pattern moved by (1, 1) modulo 5.
C9_GliderMoves ==
    \A dx \in 0 .. 4, dy \in 0 .. 4 :
       ( /\ Animated
         /\ GRID_SIZE = 5
         /\ GliderAt(dx, dy)
         /\ generation = 4 )
       => cellStateStorage[Current] =
            FromLive(Moved(Glider, dx + 1, dy + 1, GRID_SIZE), GRID_SIZE)

\* The reference automaton does move each glider seed by (1, 1) in 4
\* generations (stated of the initial states, where the seed is drawn).
C9_ReferenceGliderMoves ==
    ( /\ pc = "checkGpu"
      /\ GRID_SIZE = 5
      /\ \E dx \in 0 .. 4, dy \in 0 .. 4 : GliderAt(dx, dy) )
    => \A dx \in 0 .. 4, dy \in 0 .. 4 :
         GliderAt(dx, dy) =>
           Conway(Conway(Conway(Conway(randomCells, 5), 5), 5), 5) =
             FromLive(Moved(Glider, dx + 1, dy + 1, 5), 5)

---------------------------------------------------------------------------
(* Specifications of parts of the shader on their own.  Each starts from   *)
(* the animated program set up and idle, with the inputs of the part drawn *)
(* from bounded sets.                                                      *)

SetUp(g, wg) ==
    /\ variant = "animated"
    /\ navigatorGpu = TRUE
    /\ adapterFound = TRUE
    /\ GRID_SIZE = g
    /\ WORKGROUP_SIZE = wg
    /\ randomCells = AllDead(g)
    /\ pc = "loop"
    /\ error = ""
    /\ buffers = {"Cell vertices", "Grid Uniforms", "Cell State A", "Cell State B"}
    /\ vertexBuffer = vertices
    /\ uniformBuffer = <<g, g>>
    /\ queue = <<>>
    /\ submitted = <<>>
    /\ step = 0
    /\ timerStarted = TRUE
    /\ timerTasks = 0
    /\ tickPc = 0
    /\ encoder = NoEncoder
    /\ tickStart = 0
    /\ ticks = 0
    /\ running = 0
    /\ gpuPc = "compute"
    /\ gpuWrote = -1
    /\ generation = 0
    /\ seedWritten = TRUE
    /\ canvas = NoCanvas

programVars == <<cpuVars, gpuPc, gpuWrote, generation, seedWritten, canvas,
                 vertexBuffer, uniformBuffer, queue, timerTasks, envVars>>

(* cellIndex on the coordinates computeMain passes for a neighbour. *)

\* cell.x+1, cell.x or cell.x-1 in u32.
Shift(u, d) == IF d = 1 THEN U32Inc(u) ELSE IF d = -1 THEN U32Dec(u) ELSE u

InitWrap ==
    /\ SetUp(1, 1)
    /\ cellStateStorage = [b \in {0, 1} |-> AllDead(1)]
    /\ pending = {}
    /\ \E w \in 1 .. MaxDim, h \in 1 .. MaxDim :
         \E x \in 0 .. (w - 1), y \in 0 .. (h - 1) :
            arg = [w |-> w, h |-> h, x |-> x, y |-> y]
    /\ ret = <<>>

\* The index cellActive reads for the neighbour at offset d of cell (x, y).
NeighbourLookup ==
    /\ ret = <<>>
    /\ \E d \in Offsets :
         ret' = [d |-> d,
                 i |-> cellIndex(<<Shift(U32(arg.x), d[1]),
                                   Shift(U32(arg.y), d[2])>>,
                                 <<arg.w, arg.h>>)]
    /\ UNCHANGED <<programVars, cellStateStorage, pending, arg>>

SpecWrap == InitWrap /\ [][NeighbourLookup]_vars

(* One whole dispatch on every content of a 4x4 grid. *)

InitRule ==
    /\ SetUp(4, 2)
    /\ \E c \in [Cells(4) -> {0, 1}] :
         cellStateStorage = [b \in {0, 1} |-> IF b = 0 THEN c ELSE AllDead(4)]
    /\ pending = {}
    /\ arg = [bg |-> 0, before |-> cellStateStorage]
    /\ ret = <<>>

\* The compute pass with bind group arg.bg, executed as a whole.
RunDispatch ==
    /\ ret = <<>>
    /\ LET bg == bindGroups(arg.bg)
       IN  \E out \in Dispatched(cellStateStorage[bg.in],
                                 cellStateStorage[bg.out],
                                 GRID_SIZE, WORKGROUP_SIZE) :
              cellStateStorage' = [cellStateStorage EXCEPT ![bg.out] = out]
    /\ ret' = <<"done">>
    /\ UNCHANGED <<programVars, pending, arg>>

SpecRule == InitRule /\ [][RunDispatch]_vars

(* One dispatch, invocation by invocation, in every order: on the 2x2 grid  *)
(* with workgroups of 1 and 2 and on the 3x3 grid with one of 3, the input  *)
(* buffer any seed, the output buffer any seed (2x2) or all dead or all     *)
(* alive (3x3).                                                             *)

InitDispatch ==
    /\ \E c \in {<<2, 1>>, <<2, 2>>, <<3, 3>>} : SetUp(c[1], c[2])
    /\ pending = Invocations(GRID_SIZE, WORKGROUP_SIZE)
    /\ \E k \in {0, 1} :
         \E cin \in Seeds(GRID_SIZE) :
            \E cout \in IF GRID_SIZE <= 2 THEN Seeds(GRID_SIZE)
                        ELSE {AllDead(GRID_SIZE), AllAlive(GRID_SIZE)} :
               /\ cellStateStorage = [b \in {0, 1} |-> IF b = k THEN cin ELSE cout]
               /\ arg = [bg |-> k, before |-> cellStateStorage]
    /\ ret = <<>>

\* One invocation of computeMain: its reads of cellStateIn and its store to
\* cellStateOut, on the buffers as they are when it runs.
RunInvocation ==
    /\ \E c \in pending :
         LET bg == bindGroups(arg.bg)
             r == computeMain(cellStateStorage[bg.in],
                              <<U32(c[1]), U32(c[2])>>,
                              <<GRID_SIZE, GRID_SIZE>>)
         IN  /\ cellStateStorage' =
                  [cellStateStorage EXCEPT ![bg.out] = [@ EXCEPT ![r.i] = r.v]]
             /\ pending' = pending \ {c}
    /\ UNCHANGED <<programVars, arg, ret>>

SpecDispatch == InitDispatch /\ [][RunInvocation]_vars

---------------------------------------------------------------------------
(* Properties of the shader, checked under these specifications. *)

\* C2: the buffer bound as input of a compute pass is not the buffer bound
\* as its output; while the dispatch runs the input buffer keeps its content
\* from before the tick, so no invocation reads a value stored in this tick;
\* every output cell is either untouched or holds the value computed from the
\* input as it was before the tick; and whatever the order of the
\* GRID_SIZE * GRID_SIZE invocations, the output after the dispatch is the
\* same function of the input content from before the tick (on the 2x2
\* grid, its next generation).
C2_DispatchOrderIndependent ==
    LET bg == bindGroups(arg.bg)
        grid == <<GRID_SIZE, GRID_SIZE>>
        ran == Invocations(GRID_SIZE, WORKGROUP_SIZE) \ pending
    IN  /\ bg.in /= bg.out
        /\ cellStateStorage[bg.in] = arg.before[bg.in]
        /\ \A c \in ran :
             LET r == computeMain(arg.before[bg.in],
                                  <<U32(c[1]), U32(c[2])>>, grid)
             IN  cellStateStorage[bg.out][r.i] = r.v
        /\ \A i \in Cells(GRID_SIZE) :
             (\A c \in ran : cellIndex(<<U32(c[1]), U32(c[2])>>, grid) /= i)
               => cellStateStorage[bg.out][i] = arg.before[bg.out][i]
        /\ pending = {} =>
             cellStateStorage[bg.out] =
               [i \in Cells(GRID_SIZE) |->
                  computeMain(arg.before[bg.in],
                              <<U32(i % GRID_SIZE), U32(i \div GRID_SIZE)>>,
                              grid).v]
        /\ (pending = {} /\ GRID_SIZE = 2) =>
             cellStateStorage[bg.out] = Conway(arg.before[bg.in], GRID_SIZE)

\* A finished dispatch that read buffer B and changed buffer A.
C2_Witness ==
    /\ pending = {}
    /\ arg.bg = 1
    /\ cellStateStorage[0] /= arg.before[0]
    /\ cellStateStorage[1] = arg.before[1]
    /\ cellStateStorage[0] /= AllDead(GRID_SIZE)

\* C3: for every cell i and every input content, the value stored to the
\* output at i is the cell's own input value when its 8 neighbours sum to 2,
\* 1 when they sum to 3, and 0 when they sum to 0, 1, 4, 5, 6, 7 or 8: the
\* store of exactly one branch.
C3_RuleTable ==
    ret /= <<>> =>
      \A i \in Cells(GRID_SIZE) :
         LET n == LiveNeighbours(arg.before[0], i, GRID_SIZE)
             v == cellStateStorage[1][i]
         IN  /\ n \in 0 .. 8
             /\ n = 2 => v = arg.before[0][i]
             /\ n = 3 => v = 1
             /\ n \in {0, 1, 4, 5, 6, 7, 8} => v = 0

\* One dispatch in which a live cell with 2 neighbours survived, a dead cell
\* with 2 neighbours stayed dead, a dead cell with 3 was born and a live cell
\* with 4 died.
C3_Witness ==
    /\ ret /= <<>>
    /\ \E i, j, k, l \in Cells(GRID_SIZE) :
         /\ LiveNeighbours(arg.before[0], i, GRID_SIZE) = 2
         /\ arg.before[0][i] = 1 /\ cellStateStorage[1][i] = 1
         /\ LiveNeighbours(arg.before[0], j, GRID_SIZE) = 2
         /\ arg.before[0][j] = 0 /\ cellStateStorage[1][j] = 0
         /\ LiveNeighbours(arg.before[0], k, GRID_SIZE) = 3
         /\ arg.before[0][k] = 0 /\ cellStateStorage[1][k] = 1
         /\ LiveNeighbours(arg.before[0], l, GRID_SIZE) = 4
         /\ arg.before[0][l] = 1 /\ cellStateStorage[1][l] = 0

\* C4: for every grid width and height, the index read for a neighbour of
\* cell (x, y) is the index of that neighbour on the torus: column x-1 of
\* column 0 is column w-1, column x+1 of column w-1 is column 0, and likewise
\* for rows.
C4_WrapsToroidally ==
    ret /= <<>> =>
      ret.i = wrapIndex(arg.x + ret.d[1], arg.y + ret.d[2], arg.w, arg.h)

\* The neighbour lookup does wrap when 2^32 is a multiple of the width and of
\* the height, as it is of the widths and heights of the configurations.
WrapsWhenPowerOfTwo ==
    (ret /= <<>> /\ arg.w \in {1, 2, 4, 8} /\ arg.h \in {1, 2, 4, 8}) =>
      ret.i = wrapIndex(arg.x + ret.d[1], arg.y + ret.d[2], arg.w, arg.h)

---------------------------------------------------------------------------
(* The vertex stage of the cell shader.  An f32 is modelled by the rational *)
(* <<numerator, denominator>> it stands for, with a positive denominator:   *)
(* the integers met here (instance indices, grid sizes, cell coordinates)   *)
(* are below 2^24 and exact in f32, and the rounding of the other values is *)
(* left out.                                                                *)

One == <<1, 1>>
QAdd(p, q) == <<(p[1] * q[2]) + (q[1] * p[2]), p[2] * q[2]>>
QSub(p, q) == <<(p[1] * q[2]) - (q[1] * p[2]), p[2] * q[2]>>
\* p * n and p / n for an integer n, n > 0 in the division.
QMulInt(p, n) == <<p[1] * n, p[2]>>
QDivInt(p, n) == <<p[1], p[2] * n>>
QEq(p, q) == p[1] * q[2] = q[1] * p[2]
QLe(p, q) == p[1] * q[2] <= q[1] * p[2]

\* input.pos of vertex v (1 to 6) of the draw: two floats of the vertex buffer.
VertexPos(v) == <<<<vertices[(2 * v) - 1], 10>>, <<vertices[2 * v], 10>>>>

\* let i = f32(input.instance);
\* let cell = vec2f(i % grid.x, floor(i / grid.x));
instanceCell(instance, grid) == <<instance % grid[1], instance \div grid[1]>>

\* The vertex stage without the scaling of input.pos by the cell state.
vertexMainUnscaled(pos, instance, grid, cell_state) ==
    LET cell == instanceCell(instance, grid)
        cell_offset == <<QMulInt(QDivInt(<<cell[1], 1>>, grid[1]), 2),
                         QMulInt(QDivInt(<<cell[2], 1>>, grid[2]), 2)>>
        grid_pos ==
          <<QAdd(QSub(QDivInt(QAdd(pos[1], One), grid[1]), One), cell_offset[1]),
            QAdd(QSub(QDivInt(QAdd(pos[2], One), grid[2]), One), cell_offset[2])>>
    IN  [pos |-> grid_pos, cell |-> cell]

\* fn vertexMain(input: VertexInput) -> VertexOutput, with pos and instance
\* the fields of input, grid the uniform and cell_state the buffer of binding 1.
vertexMain(pos, instance, grid, cell_state) ==
    LET cell == instanceCell(instance, grid)
        cell_offset == <<QMulInt(QDivInt(<<cell[1], 1>>, grid[1]), 2),
                         QMulInt(QDivInt(<<cell[2], 1>>, grid[2]), 2)>>
        curr_state == cell_state[instance]
        grid_pos ==
          <<QAdd(QSub(QDivInt(QAdd(QMulInt(pos[1], curr_state), One), grid[1]),
                      One), cell_offset[1]),
            QAdd(QSub(QDivInt(QAdd(QMulInt(pos[2], curr_state), One), grid[2]),
                      One), cell_offset[2])>>
    IN  [pos |-> grid_pos, cell |-> cell]

(* The two index mappings, one applied after the other: the instance index  *)
(* decoded by the vertex stage and encoded again by cellIndex, and a cell    *)
(* encoded by cellIndex and decoded by the vertex stage.                     *)

InitIndex ==
    /\ SetUp(1, 1)
    /\ cellStateStorage = [b \in {0, 1} |-> AllDead(1)]
    /\ pending = {}
    /\ \E w \in 1 .. MaxDim, h \in 1 .. MaxDim :
         \E x \in 0 .. (w - 1), y \in 0 .. (h - 1), from \in {"instance", "cell"} :
            arg = [w |-> w, h |-> h, from |-> from,
                   i |-> IF from = "instance" THEN (y * w) + x ELSE -1,
                   cell |-> IF from = "cell" THEN <<x, y>> ELSE <<>>]
    /\ ret = <<>>

\* The vertex stage decodes an instance index: the one given, or the one
\* cellIndex returned.
DecodeInstance ==
    /\ IF ret = <<>> THEN arg.from = "instance"
                     ELSE (arg.from = "cell" /\ ret.cell = <<>>)
    /\ LET i == IF ret = <<>> THEN arg.i ELSE ret.i
       IN  ret' = [i |-> IF ret = <<>> THEN -1 ELSE ret.i,
                   cell |-> instanceCell(i, <<arg.w, arg.h>>)]
    /\ UNCHANGED <<programVars, cellStateStorage, pending, arg>>

\* cellIndex encodes a cell: the one given, or the one the vertex stage
\* decoded.
EncodeCell ==
    /\ IF ret = <<>> THEN arg.from = "cell"
                     ELSE (arg.from = "instance" /\ ret.i = -1)
    /\ LET cell == IF ret = <<>> THEN arg.cell ELSE ret.cell
       IN  ret' = [i |-> cellIndex(<<U32(cell[1]), U32(cell[2])>>,
                                   <<arg.w, arg.h>>),
                   cell |-> IF ret = <<>> THEN <<>> ELSE ret.cell]
    /\ UNCHANGED <<programVars, cellStateStorage, pending, arg>>

SpecIndex == InitIndex /\ [][DecodeInstance \/ EncodeCell]_vars

\* C13: on a grid of width W and height H, the vertex stage decodes the
\* instance index i to the cell (i mod W, i div W), which lies on the grid,
\* and cellIndex encodes that cell back to i; cellIndex encodes the cell
\* (x, y) of the grid to y*W + x, an index below W*H, and the vertex stage
\* decodes that index back to (x, y).
C13_IndexBijection ==
    ret /= <<>> =>
      /\ arg.from = "instance" =>
            /\ ret.cell = <<arg.i % arg.w, arg.i \div arg.w>>
            /\ ret.cell[1] \in 0 .. (arg.w - 1)
            /\ ret.cell[2] \in 0 .. (arg.h - 1)
            /\ ret.i /= -1 => ret.i = arg.i
      /\ arg.from = "cell" =>
            /\ ret.i = (arg.cell[2] * arg.w) + arg.cell[1]
            /\ ret.i \in 0 .. ((arg.w * arg.h) - 1)
            /\ ret.cell /= <<>> => ret.cell = arg.cell

\* Cell (2, 4) of the grid of width 3 and height 5 was encoded to index 14,
\* and index 14 decoded to cell (2, 4).
C13_Witness ==
    /\ ret /= <<>>
    /\ arg.from = "cell"
    /\ arg.w = 3 /\ arg.h = 5
    /\ arg.cell = <<2, 4>>
    /\ ret.i = 14
    /\ ret.cell = <<2, 4>>

(* The vertex stage on one vertex of one instance of the draw. *)

InitVertex ==
    /\ \E g \in 1 .. MaxDim : SetUp(g, 1)
    /\ \E c \in {AllDead(GRID_SIZE), AllAlive(GRID_SIZE)} :
         cellStateStorage = [b \in {0, 1} |->
                               IF b = 0 THEN c
                               ELSE [i \in Cells(GRID_SIZE) |-> 1 - c[i]]]
    /\ pending = {}
    /\ \E i \in Cells(GRID_SIZE), v \in 1 .. (Len(vertices) \div 2), k \in {0, 1} :
         arg = [instance |-> i, vertex |-> v, bg |-> k]
    /\ ret = <<>>

\* vertexMain on vertex arg.vertex of instance arg.instance, in a render pass
\* with bind group arg.bg.
RunVertexMain ==
    /\ ret = <<>>
    /\ ret' = vertexMain(VertexPos(arg.vertex), arg.instance, uniformBuffer,
                         cellStateStorage[bindGroups(arg.bg).in])
    /\ UNCHANGED <<programVars, cellStateStorage, pending, arg>>

SpecVertex == InitVertex /\ [][RunVertexMain]_vars

\* C14: with (x, y) the cell of instance i, g the grid size and state the
\* value at i of the buffer the render pass reads, the vertex stage maps the
\* vertex at pos to ((pos * state + 1) / g) - 1 + 2 * (x, y) / g.  When state
\* is 0 the 6 vertices of the instance map to one point.  When state is 1 the
\* vertex maps to pos / g moved to the centre of tile (x, y), the 6 vertices
\* map to the 4 corners of a square, and each lies inside the tile, which
\* spans 2x/g - 1 to 2(x+1)/g - 1 and 2y/g - 1 to 2(y+1)/g - 1 of the canvas.
C14_VisualMapping ==
    ret /= <<>> =>
      LET g == GRID_SIZE
          cells == cellStateStorage[bindGroups(arg.bg).in]
          state == cells[arg.instance]
          cell == <<arg.instance % g, arg.instance \div g>>
          p == <<vertices[(2 * arg.vertex) - 1], vertices[2 * arg.vertex]>>
          all == { vertexMain(VertexPos(v), arg.instance, <<g, g>>, cells).pos :
                     v \in 1 .. 6 }
      IN  /\ ret.cell = cell
          /\ \A k \in 1 .. 2 :
                QEq(ret.pos[k],
                    <<(p[k] * state) + 10 - (10 * g) + (20 * cell[k]), 10 * g>>)
          /\ state = 0 =>
                \A q \in all : QEq(q[1], ret.pos[1]) /\ QEq(q[2], ret.pos[2])
          /\ state = 1 =>
                /\ \A k \in 1 .. 2 :
                      /\ QEq(ret.pos[k],
                             QAdd(<<p[k], 10 * g>>,
                                  <<(2 * cell[k]) + 1 - g, g>>))
                      /\ QLe(<<(2 * cell[k]) - g, g>>, ret.pos[k])
                      /\ QLe(ret.pos[k], <<(2 * cell[k]) + 2 - g, g>>)
                /\ \E a, b, c, d \in all :
                      /\ QEq(a[1], d[1]) /\ QEq(b[1], c[1]) /\ ~QEq(a[1], b[1])
                      /\ QEq(a[2], b[2]) /\ QEq(c[2], d[2]) /\ ~QEq(a[2], d[2])
                      /\ \A q \in all :
                            \E r \in {a, b, c, d} :
                               QEq(q[1], r[1]) /\ QEq(q[2], r[2])

\* On the 4x4 grid, the vertex (0.8, 0.8) of the live instance 7, cell
\* (3, 1), read from buffer B: it maps to (0.95, -0.05).
C14_Witness ==
    /\ ret /= <<>>
    /\ GRID_SIZE = 4
    /\ arg = [instance |-> 7, vertex |-> 3, bg |-> 1]
    /\ cellStateStorage[1][7] = 1
    /\ ret.cell = <<3, 1>>
    /\ QEq(ret.pos[1], <<95, 100>>)
    /\ QEq(ret.pos[2], <<-5, 100>>)

\* On the 4x4 grid, a vertex of the dead instance 7: it maps to the centre
\* (0.75, -0.25) of tile (3, 1).
C14_WitnessDead ==
    /\ ret /= <<>>
    /\ GRID_SIZE = 4
    /\ arg.instance = 7
    /\ cellStateStorage[bindGroups(arg.bg).in][7] = 0
    /\ QEq(ret.pos[1], <<3, 4>>)
    /\ QEq(ret.pos[2], <<-1, 4>>)

---------------------------------------------------------------------------
(* Properties of the cell buffers across the whole run, checked under Spec. *)

\* The step executes a compute pass, a render pass, the seeding write.
ComputeRuns == generation' = generation + 1
RenderRuns == canvas'.frames = canvas.frames + 1
SeedRuns == ~seedWritten /\ seedWritten'

\* C11: only the seeding write and the compute passes change a cell buffer.
\* A render pass leaves both cell buffers as they are; the compute pass of
\* tick k writes the buffer bound as its output, buffer k % 2, and leaves its
\* input, buffer (k-1) % 2, as it is; every other step leaves both as they are.
C11_OnlyInitAndComputeWrite ==
    [][ /\ RenderRuns => cellStateStorage' = cellStateStorage
        /\ ComputeRuns =>
              LET k == Head(queue).tick
                  bg == bindGroups(Head(queue).compute)
              IN  /\ bg.in = (k - 1) % 2
                  /\ bg.out = k % 2
                  /\ cellStateStorage'[(k - 1) % 2] = cellStateStorage[(k - 1) % 2]
        /\ (cellStateStorage' /= cellStateStorage) => (SeedRuns \/ ComputeRuns)
      ]_vars

\* After the first tick: its compute pass has left the seed in buffer A and
\* written a different, live content to buffer B, and its render pass has run.
C11_Witness ==
    /\ Animated
    /\ generation = 1
    /\ canvas.frames = 1
    /\ cellStateStorage[0] = randomCells
    /\ cellStateStorage[1] /= randomCells
    /\ cellStateStorage[1] /= AllDead(GRID_SIZE)

\* The positions in q of the writes of cellStateArray to "Cell State A".
SeedWrites(q) ==
    { k \in 1 .. Len(q) : q[k].type = "write" /\ q[k].buf = "Cell State A" }

\* The number of seeding writes issued to the queue so far.
SeedsIssued ==
    Cardinality(SeedWrites(queue)) + (IF seedWritten THEN 1 ELSE 0)

\* C12: the seeding is issued exactly once, when the script creates the cell
\* buffers, and never again; it writes 0 or 1 to every index of buffer A and
\* nothing to buffer B, which holds only zeros until the first compute pass
\* writes it; the timer is started, and so every tick is encoded, only after
\* the seeding write was issued to the queue, where the write stands before
\* every command buffer, so that no pass executes before it.
C12_SeededOnceBeforeFirstTick ==
    /\ SeedsIssued = IF pc \in {"startLoop", "loop"} THEN 1 ELSE 0
    /\ \A k \in SeedWrites(queue) :
          /\ queue[k].data \in [Cells(GRID_SIZE) -> {0, 1}]
          /\ queue[k].data = randomCells
    /\ \A k \in 1 .. Len(queue) : queue[k].buf /= "Cell State B"
    /\ generation = 0 => cellStateStorage[1] = AllDead(GRID_SIZE)
    /\ (seedWritten /\ generation = 0) => cellStateStorage[0] = randomCells
    /\ (~seedWritten) => cellStateStorage[0] = AllDead(GRID_SIZE)
    /\ (timerStarted \/ timerTasks > 0 \/ ticks > 0 \/ tickPc > 0
          \/ encoder /= NoEncoder) => SeedsIssued = 1
    /\ \A k \in QueuedTicks : \A j \in SeedWrites(queue) : j < k
    /\ (generation > 0 \/ (Animated /\ canvas.frames > 0)) => seedWritten

\* The command buffer of the first tick is queued behind the seeding write,
\* which the GPU has not executed yet.
C12_Witness ==
    /\ Animated
    /\ ticks = 1
    /\ ~seedWritten
    /\ SeedWrites(queue) /= {}
    /\ QueuedTicks /= {}
    /\ randomCells /= AllDead(GRID_SIZE)

\* The invocations of the dispatch whose store goes to index i.
Writers(i, g, wg) ==
    { c \in Invocations(g, wg) :
        cellIndex(<<U32(c[1]), U32(c[2])>>, <<g, g>>) = i }

\* C15: the dispatch of a tick runs workgroupCount * workgroupCount
\* workgroups of WORKGROUP_SIZE * WORKGROUP_SIZE invocations, and for every
\* index of the output buffer exactly one of these invocations stores to it:
\* after the compute pass the index holds the value that invocation computed
\* from the input buffer.
C15_EachCellWrittenOnce ==
    [][ ComputeRuns =>
          LET g == GRID_SIZE
              n == workgroupCount(g, WORKGROUP_SIZE) * WORKGROUP_SIZE
              k == Head(queue).tick
          IN  /\ Cardinality(Invocations(g, WORKGROUP_SIZE)) = n * n
              /\ \A i \in Cells(g) :
                    /\ Cardinality(Writers(i, g, WORKGROUP_SIZE)) = 1
                    /\ \A c \in Writers(i, g, WORKGROUP_SIZE) :
                          cellStateStorage'[k % 2][i] =
                            computeMain(cellStateStorage[(k - 1) % 2],
                                        <<U32(c[1]), U32(c[2])>>, <<g, g>>).v
      ]_vars

\* The 4x4 grid after a dispatch of 2x2 workgroups of 2x2 invocations that
\* left live and dead cells in buffer B.
C15_Witness ==
    /\ Animated
    /\ GRID_SIZE = 4
    /\ WORKGROUP_SIZE = 2
    /\ workgroupCount(GRID_SIZE, WORKGROUP_SIZE) = 2
    /\ generation = 1
    /\ gpuWrote = 1
    /\ \E i, j \in Cells(GRID_SIZE) :
          cellStateStorage[1][i] = 1 /\ cellStateStorage[1][j] = 0

\* The indices of the live cells of content c.
Alive(c, g) == { i \in Cells(g) : c[i] = 1 }

\* Generation k of the reference automaton started from content c.
RECURSIVE Generations(_, _, _)
Generations(c, k, g) ==
    IF k = 0 THEN c
    ELSE LET live == Alive(Conway(c, g), g)
         IN  Generations([i \in Cells(g) |-> IF i \in live THEN 1 ELSE 0],
                         k - 1, g)

\* The tick whose generation is on the canvas, 0 before the first frame.
Drawn == IF canvas.frames > 0 THEN canvas.tick ELSE 0

\* C16: the render pass of tick k, k >= 1, reads the buffer the compute pass
\* of tick k wrote, and that buffer holds generation k of the reference
\* automaton started from the seed; at every moment the current buffer holds
\* the generation that counts the compute passes executed (the drawn
\* generation advanced by the compute passes executed since); no render
\* pass runs before a compute pass, so none reads generation 0.
C16_RendersKthGeneration ==
    Animated =>
      LET drawn == Generations(randomCells, Drawn, GRID_SIZE)
      IN  /\ canvas.frames > 0 =>
                /\ canvas.tick >= 1
                /\ canvas.wrote = canvas.buf
                /\ canvas.cells = drawn
          /\ generation >= Drawn
          /\ seedWritten =>
                cellStateStorage[Current] =
                  Generations(drawn, generation - Drawn, GRID_SIZE)

\* The render pass of the third tick has drawn a live generation that
\* differs from the seed and from the generation before it.
C16_Witness ==
    /\ Animated
    /\ canvas.tick = 3
    /\ generation = 3
    /\ canvas.cells /= randomCells
    /\ canvas.cells /= AllDead(GRID_SIZE)
    /\ canvas.cells /= cellStateStorage[1 - canvas.buf]

\* C17: every cell of both cell buffers holds 0 or 1, the seeding writes only
\* 0 or 1, every store of a dispatch on the current buffer (the input of the
\* next compute pass) is 0 or 1, and every invocation of it counts between 0
\* and 8 live neighbours.
C17_CellsAreBits ==
    /\ \A b \in {0, 1} :
          cellStateStorage[b] \in [Cells(GRID_SIZE) -> {0, 1}]
    /\ \A r \in Stores(cellStateStorage[Current], GRID_SIZE, WORKGROUP_SIZE) :
          r.v \in {0, 1}
    /\ \A c \in Invocations(GRID_SIZE, WORKGROUP_SIZE) :
          activeNeighbors(cellStateStorage[Current], <<U32(c[1]), U32(c[2])>>,
                          <<GRID_SIZE, GRID_SIZE>>) \in 0 .. 8
    /\ randomCells \in [Cells(GRID_SIZE) -> {0, 1}]
    /\ \A k \in SeedWrites(queue) :
          queue[k].data \in [Cells(GRID_SIZE) -> {0, 1}]

\* After two compute passes both buffers hold live and dead cells, and some
\* invocation counts 7 live neighbours.
C17_Witness ==
    /\ Animated
    /\ generation = 2
    /\ \A b \in {0, 1} :
          \E i, j \in Cells(GRID_SIZE) :
             cellStateStorage[b][i] = 1 /\ cellStateStorage[b][j] = 0
    /\ \E c \in Invocations(GRID_SIZE, WORKGROUP_SIZE) :
          activeNeighbors(cellStateStorage[Current], <<U32(c[1]), U32(c[2])>>,
                          <<GRID_SIZE, GRID_SIZE>>) = 7

===========================================================================
